---- MODULE Spec2Model ----
(***************************************************************************)
(* Layout suggestion analysis: src/src/tir/schedule/analysis/layout.cc     *)
(*                                                                         *)
(* SuggestIndexMap(buffer, indices, loops, predicate, analyzer) is modelled *)
(* as a state machine whose actions are the numbered steps of the function *)
(* followed by the host applying the returned IndexMap to a coordinate.    *)
(*                                                                         *)
(* Expressions.  An index expression is kept in the sum-of-splits normal   *)
(* form  SUM ((source // lower_factor) % extent) * scale,  a sequence of   *)
(* terms; the empty sequence is the constant 0.  A PrimExpr that is only   *)
(* ever asked whether it is a constant integer (split factors, extents)    *)
(* is the record [isconst, value].                                         *)
(***************************************************************************)
EXTENDS Integers, Sequences, FiniteSets, TLC

VARIABLES
  buffer,          \* [shape, strides]: the Buffer argument
  indices,         \* Array<PrimExpr> indices argument
  loops,           \* Array<For> loops argument: [loop_var, extent], min = 0
  pc,              \* position inside SuggestIndexMap
  var2id,          \* Step 1: loop_var -> position
  strides,         \* captured by f_flatten_index
  flat,            \* f_flatten_index(indices)
  iter_sum_exprs,  \* result of arith::DetectIterMap
  split_exprs,     \* result of SplitExprCollector::Collect
  order,           \* Step 4
  result,          \* what the call returns: [kind, n_in, n_out]
  coords,          \* coordinate tuple the host applies the IndexMap to
  output           \* f_alter_layout evaluated at coords

vars == <<buffer, indices, loops, pc, var2id, strides, flat, iter_sum_exprs,
          split_exprs, order, result, coords, output>>

----------------------------------------------------------------------------
(* Bounds of the model *)

MaxRank == 2
MaxExtent == 4
MaxLeaves == 3

VarNames == {"i", "j"}

----------------------------------------------------------------------------
(* Generic helpers *)

RECURSIVE SeqsUpTo(_, _)
SeqsUpTo(S, n) ==
  IF n = 0 THEN {<<>>}
  ELSE LET shorter == SeqsUpTo(S, n - 1)
       IN  shorter \cup {Append(s, x) : s \in {t \in shorter : Len(t) = n - 1}, x \in S}

Range(s) == {s[k] : k \in 1..Len(s)}

Reverse(s) == [k \in 1..Len(s) |-> s[Len(s) + 1 - k]]

RECURSIVE Prod(_)
Prod(s) == IF s = <<>> THEN 1 ELSE Head(s) * Prod(Tail(s))

Perms(n) == {p \in [1..n -> 1..n] : \A a, b \in 1..n : a # b => p[a] # p[b]}

IntImm(v) == [isconst |-> TRUE, value |-> v]
SymbolicExpr == [isconst |-> FALSE, value |-> 1]

----------------------------------------------------------------------------
(* GetStrides, layout.cc:29-45 *)

StridesMismatch(buf) ==
  buf.strides # <<>> /\ Len(buf.strides) # Len(buf.shape)

RECURSIVE StrideLoop(_, _, _, _)
StrideLoop(shape, i, stride, acc) ==
  IF i < 1 THEN acc
  ELSE StrideLoop(shape, i - 1, stride * shape[i], [acc EXCEPT ![i] = stride])

\* variant: the running stride starts at the last dimension instead of 1
RowMajorInit_FromShape(shape) == shape[Len(shape)]

RowMajorInit(shape) == 1

GetStrides(buf) ==
  IF buf.strides # <<>> THEN buf.strides
  ELSE IF Len(buf.shape) = 0 THEN <<>>
  ELSE StrideLoop(buf.shape, Len(buf.shape), RowMajorInit(buf.shape),
                  [k \in 1..Len(buf.shape) |-> 0])

----------------------------------------------------------------------------
(* f_flatten_index, layout.cc:142-149 *)

ScaleBy(expr, c) == [k \in 1..Len(expr) |-> [expr[k] EXCEPT !.scale = @ * c]]

\* Array<PrimExpr>::operator[] on an index past the end is a checked error
ArrayIndexError(arr, i) == i > Len(arr)

FlattenFails(ndim, idx) == \E i \in 1..ndim : ArrayIndexError(idx, i)

RECURSIVE FlattenTerms(_, _, _, _)
FlattenTerms(strd, idx, i, ndim) ==
  IF i > ndim THEN <<>>
  ELSE ScaleBy(idx[i], strd[i]) \o FlattenTerms(strd, idx, i + 1, ndim)

f_flatten_index(strd, idx, ndim) == FlattenTerms(strd, idx, 1, ndim)

RECURSIVE FlattenValue(_, _, _, _)
FlattenValue(strd, c, i, ndim) ==
  IF i > ndim THEN 0
  ELSE strd[i] * c[i] + FlattenValue(strd, c, i + 1, ndim)

----------------------------------------------------------------------------
(* arith::DetectIterMap: the affine-detection collaborator.  Its code is   *)
(* outside this file; it is modelled from its contract: the index is       *)
(* expressed as a sum of (source // lower_factor) % extent terms that fuse *)
(* into one compact mixed-radix number, returned as one IterSumExpr whose  *)
(* single split wraps the nested sum of the leaves, outermost (largest     *)
(* scale) first.  Whether an iterator whose domain has extent 1 is kept as *)
(* a component or folded into a constant is not fixed by the contract:     *)
(* both outcomes are allowed.                                              *)

LoopExtent(lps, v) == (CHOOSE k \in Range(lps) : k.loop_var = v).extent

VarLeaf(t) ==
  [kind |-> "var", var |-> t.source, lower_factor |-> IntImm(t.lower_factor),
   extent |-> IntImm(t.extent), args |-> <<>>]

SumSplit(args, ext) ==
  [kind |-> "sum", var |-> "", lower_factor |-> IntImm(1), extent |-> ext,
   args |-> args]

IterSumExpr(args) == [args |-> args]

\* two splits of one iterator must read disjoint digit ranges of it
Independent(terms) ==
  \A a, b \in 1..Len(terms) :
    (a # b /\ terms[a].source = terms[b].source) =>
      \/ terms[b].lower_factor % (terms[a].lower_factor * terms[a].extent) = 0
      \/ terms[a].lower_factor % (terms[b].lower_factor * terms[b].extent) = 0

\* orders of the terms, innermost first, in which every scale is the
\* previous scale times the previous extent
FuseChains(terms) ==
  {p \in Perms(Len(terms)) :
     \A m \in 1..(Len(terms) - 1) :
       terms[p[m + 1]].scale = terms[p[m]].scale * terms[p[m]].extent}

FusedResult(terms) ==
  IF terms = <<>> THEN {<<>>, <<IterSumExpr(<<>>)>>}
  ELSE IF ~Independent(terms) \/ FuseChains(terms) = {} THEN {<<>>}
  ELSE {<<IterSumExpr(<<SumSplit(
            [k \in 1..Len(terms) |-> VarLeaf(terms[p[Len(terms) + 1 - k]])],
            IntImm(Prod([k \in 1..Len(terms) |-> terms[k].extent])))>>)>> :
          p \in FuseChains(terms)}

DetectIterMap(index, lps) ==
  LET NonTrivial(t) == LoopExtent(lps, t.source) # 1
  IN  FusedResult(index) \cup FusedResult(SelectSeq(index, NonTrivial))

----------------------------------------------------------------------------
(* SplitExprCollector, layout.cc:51-125 *)

\* variant: only the lower factor is required to be constant
LeafIsStatic_LowerFactorOnly(expr) == expr.lower_factor.isconst

\* layout.cc:101-106: as_const_int of both fields
LeafIsStatic(expr) == expr.lower_factor.isconst /\ expr.extent.isconst

RECURSIVE VisitSplit(_, _)
RECURSIVE VisitSum(_, _)

\* Visit(const arith::IterSplitExpr&), layout.cc:99-113
VisitSplit(col, expr) ==
  IF col.fatal THEN col
  ELSE IF expr.kind = "var" THEN
    IF ~LeafIsStatic(expr) THEN [col EXCEPT !.failed_ = TRUE]
    ELSE [col EXCEPT !.exprs_ =
            Append(@, [source |-> expr.var,
                       lower_factor |-> expr.lower_factor.value,
                       extent |-> expr.extent.value])]
  ELSE IF expr.kind = "sum" THEN VisitSum(col, expr.args)
  ELSE [col EXCEPT !.fatal = TRUE]

\* Visit(const arith::IterSumExpr&), layout.cc:115-119
VisitSum(col, args) ==
  IF args = <<>> THEN col
  ELSE VisitSum(VisitSplit(col, Head(args)), Tail(args))

\* Collect, layout.cc:75-96, after the DetectIterMap call
Collect(sums) ==
  IF sums = <<>> THEN [fatal |-> FALSE, exprs |-> <<>>]
  ELSE IF Len(sums) # 1 THEN [fatal |-> TRUE, exprs |-> <<>>]
  ELSE IF Len(sums[1].args) = 0 THEN [fatal |-> FALSE, exprs |-> <<>>]
  ELSE LET collector == VisitSum([exprs_ |-> <<>>, failed_ |-> FALSE, fatal |-> FALSE],
                                 sums[1].args)
       IN  IF collector.fatal THEN [fatal |-> TRUE, exprs |-> <<>>]
           ELSE IF collector.failed_ THEN [fatal |-> FALSE, exprs |-> <<>>]
           ELSE [fatal |-> FALSE, exprs |-> collector.exprs_]

----------------------------------------------------------------------------
(* SuggestIndexMap, layout.cc:127-202 *)

\* Step 1, layout.cc:134-140: emplace keeps the first position of a variable
Var2Id(lps) ==
  [v \in {lps[k].loop_var : k \in 1..Len(lps)} |->
     CHOOSE k \in 1..Len(lps) :
       lps[k].loop_var = v /\ \A m \in 1..(k - 1) : lps[m].loop_var # v]

\* variant: the empty list is not turned into NullOpt
NoSuggestion_Never(exprs) == FALSE

\* layout.cc:154-156
NoSuggestion(exprs) == exprs = <<>>

\* variant: within one variable the finest split comes first
Less_FinestFirst(a, b, v2i) ==
  IF v2i[a.source] # v2i[b.source] THEN v2i[a.source] < v2i[b.source]
  ELSE a.lower_factor < b.lower_factor

\* the comparator of Step 4, layout.cc:160-169
Less(a, b, v2i) ==
  IF v2i[a.source] # v2i[b.source] THEN v2i[a.source] < v2i[b.source]
  ELSE a.lower_factor > b.lower_factor

\* what std::sort may leave in `order` (positions counted from 1): any
\* permutation in which no later element is less than an earlier one
SortedOrders(exprs, v2i) ==
  {p \in Perms(Len(exprs)) :
     \A x, y \in 1..Len(exprs) : x < y => ~Less(exprs[p[y]], exprs[p[x]], v2i)}

\* variant: the extents are read in sorted order
ExtentAt_Sorted(exprs, ord, i) == exprs[ord[i]].extent

\* layout.cc:188
ExtentAt(exprs, ord, i) == exprs[i].extent

\* variant: the quotient is kept instead of the remainder
SplitDigit_Quotient(index, extent) == index \div extent

\* layout.cc:189: floormod(index, extent)
SplitDigit(index, extent) == index % extent

\* variant: the index is not divided between digits
NextIndex_NoDiv(index, extent) == index

\* layout.cc:190: floordiv(index, extent)
NextIndex(index, extent) == index \div extent

\* Step 5.1 loop, layout.cc:186-191
RECURSIVE SplitLoop(_, _, _, _, _)
SplitLoop(exprs, ord, i, index, split) ==
  IF i < 1 THEN split
  ELSE SplitLoop(exprs, ord, i - 1, NextIndex(index, ExtentAt(exprs, ord, i)),
                 Append(split, SplitDigit(index, ExtentAt(exprs, ord, i))))

\* variant: the remainders are left in processing order
ReverseSplit_Skipped(split) == split

\* layout.cc:192
ReverseSplit(split) == Reverse(split)

\* layout.cc:197
ResultAt(split, ord, i) == split[ord[i]]

\* f_alter_layout evaluated at a concrete coordinate tuple, layout.cc:176-200
f_alter_layout(strd, shape, exprs, ord, c) ==
  LET index == FlattenValue(strd, c, 1, Len(shape))
      split == ReverseSplit(SplitLoop(exprs, ord, Len(exprs), index, <<>>))
  IN  [k \in 1..Len(exprs) |-> ResultAt(split, ord, k)]

\* variant: one placeholder per split component
FromFunc_ComponentArity(ndim, exprs) ==
  [kind |-> "IndexMap", n_in |-> Len(exprs), n_out |-> ndim]

\* layout.cc:201: ndim placeholders in, one expression per split out
FromFunc(ndim, exprs) ==
  [kind |-> "IndexMap", n_in |-> ndim, n_out |-> Len(exprs)]

Pending == [kind |-> "pending", n_in |-> 0, n_out |-> 0]
NullOpt == [kind |-> "NullOpt", n_in |-> 0, n_out |-> 0]
Fatal   == [kind |-> "fatal", n_in |-> 0, n_out |-> 0]

\* coordinate tuples inside the buffer shape
RECURSIVE InShape(_)
InShape(shape) ==
  IF shape = <<>> THEN {<<>>}
  ELSE {Append(c, x) : c \in InShape(SubSeq(shape, 1, Len(shape) - 1)),
                       x \in 0..(shape[Len(shape)] - 1)}

----------------------------------------------------------------------------
(* Inputs of the call *)

\* loop nests: distinct variables in any order, each over [0, extent)
LoopLists ==
  {l \in SeqsUpTo([loop_var : VarNames, extent : 1..MaxExtent], Cardinality(VarNames)) :
     \A a, b \in 1..Len(l) : a # b => l[a].loop_var # l[b].loop_var}

Term(v, lf, ext, sc) ==
  [source |-> v, lower_factor |-> lf, extent |-> ext, scale |-> sc]

\* the index expressions written over a loop nest:
\*   0,  v,  v // c,  v % c,  v1 * extent(v2) + v2
IndexForms(l) ==
  LET E(v) == LoopExtent(l, v)
      Vs == {l[k].loop_var : k \in 1..Len(l)}
      Cuts(v) == {c \in 2..(E(v) - 1) : E(v) % c = 0}
  IN  {<<>>}
      \cup {<<Term(v, 1, E(v), 1)>> : v \in Vs}
      \cup UNION {{<<Term(v, c, E(v) \div c, 1)>> : c \in Cuts(v)} : v \in Vs}
      \cup UNION {{<<Term(v, 1, c, 1)>> : c \in Cuts(v)} : v \in Vs}
      \cup {<<Term(pr[1], 1, E(pr[1]), E(pr[2])), Term(pr[2], 1, E(pr[2]), 1)>> :
              pr \in {q \in Vs \X Vs : q[1] # q[2]}}

RECURSIVE MaxValue(_)
MaxValue(expr) ==
  IF expr = <<>> THEN 0
  ELSE (Head(expr).extent - 1) * Head(expr).scale + MaxValue(Tail(expr))

\* the smallest shape the indices stay inside
AccessShape(idx) == [k \in 1..Len(idx) |-> MaxValue(idx[k]) + 1]

ColumnMajor(shape) == [k \in 1..Len(shape) |-> Prod(SubSeq(shape, 1, k - 1))]

\* buffers accessed by idx: the accessed shape with derived or explicit
\* strides, explicit strides of the wrong length, and shapes of lower or
\* higher rank than the number of indices
BuffersFor(idx) ==
  LET shape == AccessShape(idx)
  IN  {[shape |-> shape, strides |-> <<>>],
       [shape |-> shape, strides |-> ColumnMajor(shape)],
       [shape |-> shape, strides |-> Append(ColumnMajor(shape), 1)],
       [shape |-> Append(shape, 2), strides |-> <<>>]}
      \cup (IF idx = <<>> THEN {}
            ELSE {[shape |-> SubSeq(shape, 1, Len(shape) - 1), strides |-> <<>>]})

StartOfCall ==
  /\ pc = "step1"
  /\ var2id = <<>>
  /\ strides = <<>>
  /\ flat = <<>>
  /\ iter_sum_exprs = <<>>
  /\ split_exprs = <<>>
  /\ order = <<>>
  /\ result = Pending
  /\ coords = <<>>
  /\ output = <<>>

Init ==
  /\ loops \in LoopLists
  /\ indices \in SeqsUpTo(IndexForms(loops), MaxRank)
  /\ buffer \in BuffersFor(indices)
  /\ StartOfCall

----------------------------------------------------------------------------
(* The steps of SuggestIndexMap *)

\* Step 1, layout.cc:132-140
CollectLoops ==
  /\ pc = "step1"
  /\ var2id' = Var2Id(loops)
  /\ pc' = "step2"
  /\ UNCHANGED <<buffer, indices, loops, strides, flat, iter_sum_exprs,
                 split_exprs, order, result, coords, output>>

\* Step 2, layout.cc:142: the lambda captures GetStrides(buffer)
CaptureStrides ==
  /\ pc = "step2"
  /\ IF StridesMismatch(buffer)
       THEN /\ pc' = "done"
            /\ result' = Fatal
            /\ UNCHANGED strides
       ELSE /\ pc' = "step3"
            /\ strides' = GetStrides(buffer)
            /\ UNCHANGED result
  /\ UNCHANGED <<buffer, indices, loops, var2id, flat, iter_sum_exprs,
                 split_exprs, order, coords, output>>

\* Step 3, layout.cc:152: f_flatten_index(indices)
FlattenIndices ==
  /\ pc = "step3"
  /\ IF FlattenFails(Len(buffer.shape), indices)
       THEN /\ pc' = "done"
            /\ result' = Fatal
            /\ UNCHANGED flat
       ELSE /\ pc' = "detect"
            /\ flat' = f_flatten_index(strides, indices, Len(buffer.shape))
            /\ UNCHANGED result
  /\ UNCHANGED <<buffer, indices, loops, var2id, strides, iter_sum_exprs,
                 split_exprs, order, coords, output>>

\* layout.cc:81-82 with the modelled collaborator
Detect ==
  /\ pc = "detect"
  /\ iter_sum_exprs' \in DetectIterMap(flat, loops)
  /\ pc' = "collect"
  /\ UNCHANGED <<buffer, indices, loops, var2id, strides, flat, split_exprs,
                 order, result, coords, output>>

\* layout.cc:83-96 and 154-156
CollectSplits ==
  /\ pc = "collect"
  /\ LET got == Collect(iter_sum_exprs)
     IN  IF got.fatal
           THEN pc' = "done" /\ result' = Fatal /\ UNCHANGED split_exprs
         ELSE IF NoSuggestion(got.exprs)
           THEN pc' = "done" /\ result' = NullOpt /\ split_exprs' = got.exprs
         ELSE pc' = "step4" /\ split_exprs' = got.exprs /\ UNCHANGED result
  /\ UNCHANGED <<buffer, indices, loops, var2id, strides, flat, iter_sum_exprs,
                 order, coords, output>>

\* Step 4, layout.cc:158-169
SortOrder ==
  /\ pc = "step4"
  /\ order' \in SortedOrders(split_exprs, var2id)
  /\ pc' = "step5"
  /\ UNCHANGED <<buffer, indices, loops, var2id, strides, flat, iter_sum_exprs,
                 split_exprs, result, coords, output>>

\* Step 5, layout.cc:171-201
BuildIndexMap ==
  /\ pc = "step5"
  /\ result' = FromFunc(Len(buffer.shape), split_exprs)
  /\ pc' = "done"
  /\ UNCHANGED <<buffer, indices, loops, var2id, strides, flat, iter_sum_exprs,
                 split_exprs, order, coords, output>>

\* the host evaluates the returned map at a coordinate inside the shape
ApplyIndexMap ==
  /\ pc = "done"
  /\ result.kind = "IndexMap"
  /\ \E c \in InShape(buffer.shape) :
       /\ coords' = c
       /\ output' = f_alter_layout(strides, buffer.shape, split_exprs, order, c)
  /\ pc' = "applied"
  /\ UNCHANGED <<buffer, indices, loops, var2id, strides, flat, iter_sum_exprs,
                 split_exprs, order, result>>

Next ==
  \/ CollectLoops
  \/ CaptureStrides
  \/ FlattenIndices
  \/ Detect
  \/ CollectSplits
  \/ SortOrder
  \/ BuildIndexMap
  \/ ApplyIndexMap

Spec == Init /\ [][Next]_vars

----------------------------------------------------------------------------
(* The collaborator as a black box.  Only the output contract of           *)
(* arith::DetectIterMap is assumed: no result, or one sum-of-splits tree   *)
(* whose split nodes wrap a loop variable or a nested sum, with factors    *)
(* and extents that may or may not be constant integers.  The caller's     *)
(* index expressions are then left uninterpreted.                          *)

OpaqueIndex == <<Term("expr", 1, 1, 1)>>

LeafNode(v, lf, ext) ==
  [kind |-> "var", var |-> v, lower_factor |-> lf, extent |-> ext, args |-> <<>>]

Leaves ==
  {LeafNode("i", IntImm(1), IntImm(2)),
   LeafNode("i", IntImm(2), IntImm(3)),
   LeafNode("j", IntImm(1), IntImm(3)),
   LeafNode("i", SymbolicExpr, IntImm(2)),
   LeafNode("j", IntImm(1), SymbolicExpr)}

\* the nestings of a list of leaves: all at the top level, all inside one
\* fused split, or the first at the top level and the rest two levels down
TreesOver(ls) ==
  {IterSumExpr(ls), IterSumExpr(<<SumSplit(ls, IntImm(1))>>)}
  \cup (IF Len(ls) < 2 THEN {}
        ELSE {IterSumExpr(<<Head(ls),
                            SumSplit(<<SumSplit(Tail(ls), IntImm(1))>>, IntImm(1))>>)})

CollaboratorResults ==
  {<<>>} \cup {<<t>> : t \in UNION {TreesOver(ls) : ls \in SeqsUpTo(Leaves, MaxLeaves)}}

InitCollab ==
  /\ loops \in {l \in LoopLists :
                  /\ Len(l) = Cardinality(VarNames)
                  /\ \A k \in 1..Len(l) : l[k].extent = MaxExtent}
  /\ buffer \in {[shape |-> sh, strides |-> <<>>] :
                   sh \in SeqsUpTo({2, 3}, MaxRank) \ {<<>>}}
  /\ indices = [k \in 1..Len(buffer.shape) |-> OpaqueIndex]
  /\ StartOfCall

\* layout.cc:81-82 with the collaborator left open
DetectAny ==
  /\ pc = "detect"
  /\ iter_sum_exprs' \in CollaboratorResults
  /\ pc' = "collect"
  /\ UNCHANGED <<buffer, indices, loops, var2id, strides, flat, split_exprs,
                 order, result, coords, output>>

NextCollab ==
  \/ CollectLoops
  \/ CaptureStrides
  \/ FlattenIndices
  \/ DetectAny
  \/ CollectSplits
  \/ SortOrder
  \/ BuildIndexMap
  \/ ApplyIndexMap

SpecCollab == InitCollab /\ [][NextCollab]_vars

----------------------------------------------------------------------------
(* Properties *)

Terminated == pc \in {"done", "applied"}

Returned == Terminated /\ result.kind = "IndexMap"

Rank == Len(buffer.shape)

Extents == [k \in 1..Len(split_exprs) |-> split_exprs[k].extent]

Remap(c) == f_alter_layout(strides, buffer.shape, split_exprs, order, c)

Offset(c) == FlattenValue(strides, c, 1, Rank)

\* digit j of f in the mixed radix exts (most significant first)
DigitOf(f, exts, j) == (f \div Prod(SubSeq(exts, j + 1, Len(exts)))) % exts[j]

RECURSIVE MixedRadixValue(_, _)
MixedRadixValue(d, exts) ==
  IF d = <<>> THEN 0
  ELSE Head(d) * Prod(Tail(exts)) + MixedRadixValue(Tail(d), Tail(exts))

\* C1: whenever the number of supplied indices differs from the buffer rank
\* (fewer or more), the call ends in the fatal internal-consistency failure.
C1_ArityMismatchIsFatal ==
  (Terminated /\ Len(indices) # Rank) => result.kind = "fatal"

\* C2 as claimed: output coordinate k is the digit obtained by dividing with
\* the extents of the sorted components k..last, with no further permutation.
C2_DigitsUseSortedExtents ==
  pc = "applied" =>
    output = [k \in 1..Len(split_exprs) |->
                DigitOf(Offset(coords), [m \in 1..Len(order) |-> Extents[order[m]]], k)]

\* C2 as amended: the digits are extracted with the extents in encounter
\* order, last component first, and output coordinate k is the digit of
\* component order[k], i.e. the reversed remainders permuted by the sort order.
C2_DigitsUseEncounterExtents ==
  pc = "applied" =>
    output = [k \in 1..Len(split_exprs) |-> DigitOf(Offset(coords), Extents, order[k])]

C2_Witness ==
  /\ pc = "applied"
  /\ Len(split_exprs) = 3
  /\ order = <<3, 1, 2>>
  /\ Extents = <<3, 2, 3>>
  /\ Offset(coords) = 5
  /\ output = <<2, 0, 1>>

\* C3: in every returned remapping the component behind output coordinate p
\* precedes the one behind q (p before q) in the canonical key: loop position
\* ascending, and for one source variable lower_factor descending.
C3_OutputsInCanonicalOrder ==
  Returned =>
    \A p, q \in 1..Len(order) :
      p < q =>
        LET a == split_exprs[order[p]]
            b == split_exprs[order[q]]
        IN  /\ var2id[a.source] <= var2id[b.source]
            /\ a.source = b.source => a.lower_factor >= b.lower_factor

C3_Witness ==
  /\ Returned
  /\ loops[1].loop_var = "j"
  /\ [k \in 1..Len(split_exprs) |-> split_exprs[k].source] = <<"i", "j", "i">>
  /\ [k \in 1..Len(split_exprs) |-> split_exprs[k].lower_factor] = <<1, 1, 2>>
  /\ order = <<2, 3, 1>>

\* C4 as claimed: the returned map takes as many inputs as there are split
\* components and produces as many outputs as the buffer has dimensions.
C4_InputsAreComponents ==
  Returned => (result.n_in = Len(split_exprs) /\ result.n_out = Rank)

\* C4 as amended: the returned map takes one input per buffer dimension and
\* produces one output per split component.
C4_InputsAreDimensions ==
  /\ Returned => (result.n_in = Rank /\ result.n_out = Len(split_exprs))
  /\ pc = "applied" => (Len(coords) = result.n_in /\ Len(output) = result.n_out)

C4_Witness ==
  /\ pc = "applied"
  /\ Len(coords) = 1
  /\ Len(output) = 3

\* C7: a leaf whose lower factor or extent is not a constant integer, at any
\* position of the tree and with any number of convertible leaves around it,
\* makes extraction return the empty list and the call return no suggestion.
RECURSIVE HasDynamicLeaf(_)
HasDynamicLeaf(args) ==
  \E k \in 1..Len(args) :
    IF args[k].kind = "var"
      THEN ~args[k].lower_factor.isconst \/ ~args[k].extent.isconst
      ELSE HasDynamicLeaf(args[k].args)

C7_DynamicLeafGivesNoSuggestion ==
  (Terminated /\ iter_sum_exprs # <<>> /\ HasDynamicLeaf(iter_sum_exprs[1].args)) =>
    (result = NullOpt /\ split_exprs = <<>>)

C7_Witness ==
  /\ Terminated
  /\ result = NullOpt
  /\ iter_sum_exprs =
       <<IterSumExpr(<<LeafNode("i", IntImm(1), IntImm(2)),
                       SumSplit(<<SumSplit(<<LeafNode("j", IntImm(1), IntImm(3)),
                                            LeafNode("j", IntImm(1), SymbolicExpr)>>,
                                          IntImm(1))>>, IntImm(1))>>)>>

\* C10: for every returned remapping and every coordinate inside the shape,
\* the outputs are a permutation (the sort order) of digits d_j, 0 <= d_j < e_j,
\* with SUM d_j * PROD_{k>j} e_k = f mod PROD e, for the flattened offset f and
\* the encounter-order extents e; so coordinates with different offsets
\* below that product never collide: they give as many outputs as offsets.
C10_MixedRadixRoundTrip ==
  (pc = "done" /\ result.kind = "IndexMap") =>
    LET n     == Len(split_exprs)
        cs    == InShape(buffer.shape)
        total == Prod(Extents)
        below == {c \in cs : 0 <= Offset(c) /\ Offset(c) < total}
    IN  /\ \A j \in 1..n : \E k \in 1..n : order[k] = j
        /\ \A c \in cs :
             Offset(c) >= 0 =>
               LET d == [j \in 1..n |-> Remap(c)[CHOOSE k \in 1..n : order[k] = j]]
               IN  /\ \A j \in 1..n : 0 <= d[j] /\ d[j] < Extents[j]
                   /\ MixedRadixValue(d, Extents) = Offset(c) % total
        /\ Cardinality({Remap(c) : c \in below}) = Cardinality({Offset(c) : c \in below})

C10_Witness ==
  /\ pc = "applied"
  /\ buffer.shape = <<3, 3>>
  /\ Extents = <<2, 3>>
  /\ order = <<2, 1>>
  /\ coords = <<2, 1>>
  /\ output = <<1, 0>>

\* the row-major access: no explicit strides, index k is the k-th loop
\* variable, and loop k runs over [0, shape[k])
RowMajorCase ==
  /\ buffer.strides = <<>>
  /\ Rank >= 1
  /\ Len(indices) = Rank
  /\ Len(loops) = Rank
  /\ \A k \in 1..Rank :
       /\ indices[k] = <<Term(loops[k].loop_var, 1, loops[k].extent, 1)>>
       /\ buffer.shape[k] = loops[k].extent

RowMajorResult ==
  /\ result.kind = "IndexMap"
  /\ split_exprs = [k \in 1..Rank |->
                      [source |-> loops[k].loop_var, lower_factor |-> 1,
                       extent |-> buffer.shape[k]]]
  /\ \A c \in InShape(buffer.shape) : Remap(c) = c
  /\ pc = "applied" => output = coords

\* C5 as claimed: for every shape [d_0..d_{n-1}] accessed row-major,
\* extraction yields n components with extents d_k and lower factors 1 and
\* the returned remapping is the identity on the coordinates in range.
C5_RowMajorIdentityAnyShape ==
  (Terminated /\ RowMajorCase) => RowMajorResult

\* C5 as amended: the same, for shapes whose dimensions are all at least 2.
C5_RowMajorIdentity ==
  (Terminated /\ RowMajorCase /\ \A k \in 1..Rank : buffer.shape[k] >= 2) =>
    RowMajorResult

C5_Witness ==
  /\ pc = "applied"
  /\ RowMajorCase
  /\ buffer.shape = <<2, 4>>
  /\ split_exprs = <<[source |-> "j", lower_factor |-> 1, extent |-> 2],
                     [source |-> "i", lower_factor |-> 1, extent |-> 4]>>
  /\ coords = <<1, 3>>
  /\ output = <<1, 3>>

\* the split/fused access: a one-dimensional buffer of E_o * E_i elements
\* indexed by k_o * E_i + k_i under loops k_o, k_i declared in that order
FusedCase ==
  /\ buffer.strides = <<>>
  /\ Len(loops) = 2
  /\ buffer.shape = <<loops[1].extent * loops[2].extent>>
  /\ indices = <<<<Term(loops[1].loop_var, 1, loops[1].extent, loops[2].extent),
                   Term(loops[2].loop_var, 1, loops[2].extent, 1)>>>>

FusedCaseResult ==
  /\ result.kind = "IndexMap"
  /\ [k \in 1..Len(order) |-> split_exprs[order[k]]] =
       <<[source |-> loops[1].loop_var, lower_factor |-> 1, extent |-> loops[1].extent],
         [source |-> loops[2].loop_var, lower_factor |-> 1, extent |-> loops[2].extent]>>
  /\ \A ko \in 0..(loops[1].extent - 1), ki \in 0..(loops[2].extent - 1) :
       Remap(<<ko * loops[2].extent + ki>>) = <<ko, ki>>
  /\ pc = "applied" =>
       coords = <<output[1] * loops[2].extent + output[2]>>

\* C6 as claimed: for all extents E_o, E_i the fused access yields the two
\* components k_o, k_i in that order with extents E_o, E_i, and the
\* remapping sends position k_o * E_i + k_i to (k_o, k_i).
C6_FusedRecoversPairAnyExtent ==
  (Terminated /\ FusedCase) => FusedCaseResult

\* C6 as amended: the same, for extents E_o and E_i that are both at least 2.
C6_FusedRecoversPair ==
  (Terminated /\ FusedCase /\ loops[1].extent >= 2 /\ loops[2].extent >= 2) =>
    FusedCaseResult

C6_Witness ==
  /\ pc = "applied"
  /\ FusedCase
  /\ loops[1].extent = 2
  /\ loops[2].extent = 4
  /\ coords = <<7>>
  /\ output = <<1, 3>>

\* C8: without explicit strides a rank-n buffer gets n strides, the last 1
\* and each other the next stride times the next dimension; rank 0 gets the
\* empty sequence; explicit strides of the shape's length come back unchanged.
C8_StrideDerivation ==
  (pc \notin {"step1", "step2"} /\ ~StridesMismatch(buffer)) =>
    IF buffer.strides # <<>> THEN strides = buffer.strides
    ELSE /\ Len(strides) = Rank
         /\ Rank >= 1 => strides[Rank] = 1
         /\ \A k \in 1..(Rank - 1) : strides[k] = strides[k + 1] * buffer.shape[k + 1]

C8_Witness ==
  /\ pc = "step3"
  /\ buffer.strides = <<>>
  /\ buffer.shape = <<3, 4, 2>>
  /\ strides = <<8, 2, 1>>

\* C9: a rank-0 buffer with empty indices gets no suggestion under any loop
\* list: the flattened index is the constant 0, no split component is
\* extracted, and the sort and the synthesis never run.
C9_RankZeroNoSuggestion ==
  (Rank = 0 /\ buffer.strides = <<>> /\ indices = <<>>) =>
    /\ pc \notin {"step4", "step5", "applied"}
    /\ pc \in {"detect", "collect", "done"} => flat = <<>>
    /\ pc = "done" => (result = NullOpt /\ split_exprs = <<>> /\ order = <<>>)

C9_Witness ==
  /\ pc = "done"
  /\ Rank = 0
  /\ indices = <<>>
  /\ Len(loops) = 2
  /\ iter_sum_exprs = <<IterSumExpr(<<>>)>>
  /\ result = NullOpt

====
